---- MODULE Spec2Model ----
(***************************************************************************)
(* A model of bilby_pipe's job-graph generator (bilby_pipe/main.py):       *)
(* main() builds an Input from the parsed arguments and a Dag from the     *)
(* Input; the Dag expands the configuration into leaf jobs, adds the       *)
(* combine_results job and hands the graph to pycondor.                    *)
(*                                                                         *)
(* Python strings are sequences of one-character strings, so that split,   *)
(* sort, upper, join and format are computed character by character; the   *)
(* fixed words of a format string are single pieces that hold no space.    *)
(***************************************************************************)
EXTENDS Integers, Sequences, FiniteSets, TLC

VARIABLES args, kwargs, env, fs, pc, inputs, dag, error, todo, jobs, post_job, backend,
          ini, evals, self, calls, result

vars == <<args, kwargs, env, fs, pc, inputs, dag, error, todo, jobs, post_job, backend,
          ini, evals, self, calls, result>>

(***************************************************************************)
(* Bounds of the model.                                                    *)
(***************************************************************************)
\* the largest number of detector tokens in a raw include_detectors value
MaxDets == 2
\* the largest number of entries of a sampler list
MaxSamplers == 2
\* evaluations of Dag.jobs_inputs in one run: two of Dag.__init__, then a caller's
MaxEvaluations == 3
\* calls made on one object of the superclass Input of input.py
MaxCalls == 3
\* rows of a timeslide file, and gps times of an object
MaxRows == 3

(***************************************************************************)
(* Python values.                                                          *)
(***************************************************************************)
None == [kind |-> "None"]
PyStr(s) == [kind |-> "str", val |-> s]
PyList(l) == [kind |-> "list", val |-> l]
PyInt(n) == [kind |-> "int", val |-> n]

\* code points of the characters the detector tokens are made of
Ord ==
  (" " :> 32) @@ ("," :> 44) @@ ("1" :> 49) @@ ("H" :> 72) @@ ("L" :> 76) @@
  ("V" :> 86) @@ ("X" :> 88) @@ ("[" :> 91) @@ ("]" :> 93) @@ ("h" :> 104) @@
  ("l" :> 108) @@ ("v" :> 118) @@ ("x" :> 120)

Chr(n) == CHOOSE c \in DOMAIN Ord : Ord[c] = n

\* str.upper() on one character: a-z move down by 32, everything else stays
UpperChar(c) == IF Ord[c] >= 97 /\ Ord[c] <= 122 THEN Chr(Ord[c] - 32) ELSE c

\* str.upper()
Upper(s) == [i \in 1..Len(s) |-> UpperChar(s[i])]

\* Python's < on str: lexicographic by code point
RECURSIVE StrLess(_, _)
StrLess(a, b) ==
  IF a = <<>> THEN b # <<>>
  ELSE IF b = <<>> THEN FALSE
  ELSE IF Ord[Head(a)] # Ord[Head(b)] THEN Ord[Head(a)] < Ord[Head(b)]
  ELSE StrLess(Tail(a), Tail(b))

RECURSIVE InsertSorted(_, _)
InsertSorted(x, l) ==
  IF l = <<>> THEN <<x>>
  ELSE IF StrLess(x, Head(l)) THEN <<x>> \o l
  ELSE <<Head(l)>> \o InsertSorted(x, Tail(l))

\* list.sort() on a list of str
RECURSIVE SortList(_)
SortList(l) == IF l = <<>> THEN <<>> ELSE InsertSorted(Head(l), SortList(Tail(l)))

\* ''.join(l)
RECURSIVE Join(_)
Join(l) == IF l = <<>> THEN <<>> ELSE Head(l) \o Join(Tail(l))

\* sep.join(l)
RECURSIVE JoinWith(_, _)
JoinWith(l, sep) ==
  IF l = <<>> THEN <<>>
  ELSE IF Len(l) = 1 THEN Head(l)
  ELSE Head(l) \o sep \o JoinWith(Tail(l), sep)

\* string.split(' '): cut at every single space; '' gives ['']
RECURSIVE split_string_by_space(_)
split_string_by_space(s) ==
  IF \A i \in 1..Len(s) : s[i] # " " THEN <<s>>
  ELSE LET i == CHOOSE k \in 1..Len(s) : s[k] = " " /\ \A j \in 1..(k - 1) : s[j] # " "
       IN <<SubSeq(s, 1, i - 1)>> \o split_string_by_space(SubSeq(s, i + 1, Len(s)))

\* string.replace(c, ' ') and string.replace(c, '') for a one-character c
ReplaceBySpace(s, c) == [i \in 1..Len(s) |-> IF s[i] = c THEN " " ELSE s[i]]
RECURSIVE Remove(_, _)
Remove(s, c) ==
  IF s = <<>> THEN <<>>
  ELSE IF Head(s) = c THEN Remove(Tail(s), c)
  ELSE <<Head(s)>> \o Remove(Tail(s), c)

\* string.split(): cut at runs of whitespace, no empty strings
SplitWhitespace(s) == SelectSeq(split_string_by_space(s), LAMBDA t : t # <<>>)

\* input.py, Input._convert_string_to_list
convert_string_to_list(s) ==
  SplitWhitespace(
    Remove(Remove(Remove(Remove(ReplaceBySpace(s, ","), "["), "]"), "\""), "'"))


(***************************************************************************)
(* Paths are sequences of components; the file system is the set of the    *)
(* paths that exist.                                                       *)
(***************************************************************************)
Cwd == <<"cwd">>
PkgParent == <<"site-packages">>

\* os.path.abspath of a path relative to the working directory
Abspath(p) == Cwd \o p

\* os.path.basename
Basename(p) == p[Len(p)]

\* path + suffix, for a suffix without a separator
WithSuffix(p, suffix) == [p EXCEPT ![Len(p)] = @ \o suffix]

\* os.path.isfile of a path relative to the working directory
IsFile(f, p) == Abspath(p) \in f

\* an absolute path as a str
PathStr(p) == <<"/">> \o JoinWith([i \in 1..Len(p) |-> <<p[i]>>], <<"/">>)

\* utils.check_directory_exists_and_if_not_mkdir: the file system afterwards
check_directory_exists_and_if_not_mkdir(f, directory) == f \cup {directory}

(***************************************************************************)
(* Exceptions.                                                             *)
(***************************************************************************)
NoError == [exc |-> "none", msg |-> "", fmt |-> <<>>]
Raise(exc, msg, fmt) == [exc |-> exc, msg |-> msg, fmt |-> fmt]

(***************************************************************************)
(* class Input of main.py                                                  *)
(***************************************************************************)
H1 == <<"H", "1">>
L1 == <<"L", "1">>
V1 == <<"V", "1">>

\* self.known_detectors
known_detectors == <<H1, L1, V1>>

Range(l) == {l[i] : i \in 1..Len(l)}

\* the first element of det_list the validation loop rejects, by index
FirstUnknown(det_list, known) ==
  CHOOSE i \in 1..Len(det_list) :
    /\ det_list[i] \notin Range(known)
    /\ \A j \in 1..(i - 1) : det_list[j] \in Range(known)

\* a validation that looks at the first element only
HasUnknownFirstOnly(det_list, known) == det_list # <<>> /\ det_list[1] \notin Range(known)

\* the validation loop of the setter raises: some element is not a known detector
HasUnknown(det_list, known) == \E i \in 1..Len(det_list) : det_list[i] \notin Range(known)

\* the include_detectors setter: the list it stores, or the exception it raises
include_detectors_setter(known, include_detectors) ==
  IF include_detectors.kind \notin {"str", "list"}
  THEN [ok |-> FALSE, val |-> <<>>,
        error |-> Raise("ValueError", "Input include_detectors = {} not understood",
                        <<include_detectors>>)]
  ELSE
    LET split == IF include_detectors.kind = "str"
                 THEN split_string_by_space(include_detectors.val)
                 ELSE IF Len(include_detectors.val) = 1
                      THEN split_string_by_space(include_detectors.val[1])
                      ELSE include_detectors.val
        sorted == SortList(split)
        det_list == [i \in 1..Len(sorted) |-> Upper(sorted[i])]
    IN IF HasUnknown(det_list, known)
       THEN [ok |-> FALSE, val |-> <<>>,
             error |-> Raise("ValueError",
                             "include_detectors contains {} not in the known detectors list: {} ",
                             <<det_list[FirstUnknown(det_list, known)], known>>)]
       ELSE [ok |-> TRUE, val |-> det_list, error |-> NoError]

\* an executable setter that looks in lib_scripts before the literal path
ExecutableSetterLibraryFirst(f, executable) ==
  LET executable_path == PkgParent \o <<"lib_scripts">> \o executable
  IN IF executable_path \in f
     THEN [ok |-> TRUE, val |-> executable_path, error |-> NoError]
     ELSE IF IsFile(f, executable)
     THEN [ok |-> TRUE, val |-> executable, error |-> NoError]
     ELSE IF WithSuffix(executable_path, ".py") \in f
     THEN [ok |-> TRUE, val |-> WithSuffix(executable_path, ".py"), error |-> NoError]
     ELSE [ok |-> FALSE, val |-> <<>>,
           error |-> Raise("ValueError", "Unable to identify executable", <<>>)]

\* the executable setter: the path it stores, or the exception it raises
executable_setter(f, executable) ==
  LET executable_path == PkgParent \o <<"lib_scripts">> \o executable
  IN IF IsFile(f, executable)
     THEN [ok |-> TRUE, val |-> executable, error |-> NoError]
     ELSE IF executable_path \in f
     THEN [ok |-> TRUE, val |-> executable_path, error |-> NoError]
     ELSE IF WithSuffix(executable_path, ".py") \in f
     THEN [ok |-> TRUE, val |-> WithSuffix(executable_path, ".py"), error |-> NoError]
     ELSE [ok |-> FALSE, val |-> <<>>,
           error |-> Raise("ValueError", "Unable to identify executable", <<>>)]

\* the value of an attribute that was never assigned
Unset == [kind |-> "unset"]

\* the x509userproxy setter: the attribute afterwards (Unset when no branch
\* assigned it), the file system afterwards, or the exception it raises
x509userproxy_setter(f, e, outdir, x509userproxy) ==
  IF x509userproxy = None
  THEN IF "X509_USER_PROXY" \notin DOMAIN e
       THEN \* KeyError
            [ok |-> TRUE, val |-> None, fs |-> f, error |-> NoError]
       ELSE LET cert_path == e["X509_USER_PROXY"]
                new_cert_path == outdir \o <<"." \o Basename(cert_path)>>
            IN IF cert_path \notin f
               THEN \* FileNotFoundError from shutil.copyfile
                    [ok |-> TRUE, val |-> Unset, fs |-> f, error |-> NoError]
               ELSE [ok |-> TRUE, val |-> PyStr(new_cert_path),
                     fs |-> f \cup {new_cert_path}, error |-> NoError]
  ELSE IF IsFile(f, x509userproxy.val)
  THEN [ok |-> TRUE, val |-> x509userproxy, fs |-> f, error |-> NoError]
  ELSE [ok |-> FALSE, val |-> Unset, fs |-> f,
        error |-> Raise("ValueError", "Input X509 not a file or not understood", <<>>)]

\* the x509userproxy getter: the value, or the exception it raises
x509userproxy_getter(inp) ==
  IF inp.x509userproxy = Unset
  THEN [ok |-> FALSE, val |-> Unset,
        error |-> Raise("ValueError",
                        "The X509 user proxy has not been correctly set, please check the logs",
                        <<>>)]
  ELSE [ok |-> TRUE, val |-> inp.x509userproxy, error |-> NoError]

\* no Input instance
NoInput == [kind |-> "None"]

\* Input.__init__: the instance, the file system afterwards and how it ended
\* ("ok", "raised", or "exited" for the sys.exit() of executable_help)
Input_init(a, unknown_args, e, f) ==
  LET outdir == Abspath(a.outdir)
      f1 == check_directory_exists_and_if_not_mkdir(f, outdir)
      det == include_detectors_setter(known_detectors, a.include_detectors)
      exe == executable_setter(f1, a.executable)
      x509 == x509userproxy_setter(f1, e, outdir, a.X509)
  IN IF ~det.ok THEN [end |-> "raised", self |-> NoInput, fs |-> f1, error |-> det.error]
     ELSE IF ~exe.ok THEN [end |-> "raised", self |-> NoInput, fs |-> f1, error |-> exe.error]
     ELSE IF ~x509.ok THEN [end |-> "raised", self |-> NoInput, fs |-> f1, error |-> x509.error]
     ELSE IF a.exe_help
     THEN [end |-> "exited", self |-> NoInput, fs |-> x509.fs, error |-> NoError]
     ELSE [end |-> "ok", fs |-> x509.fs, error |-> NoError,
           self |-> [kind |-> "Input",
                     known_detectors |-> known_detectors,
                     unknown_args |-> unknown_args,
                     ini |-> a.ini,
                     submit |-> a.submit,
                     outdir |-> outdir,
                     label |-> a.label,
                     queue |-> a.queue,
                     create_summary |-> a.create_summary,
                     accounting |-> a.accounting,
                     sampler |-> a.sampler,
                     include_detectors |-> det.val,
                     coherence_test |-> a.coherence_test,
                     executable |-> exe.val,
                     x509userproxy |-> x509.val]]


(***************************************************************************)
(* class Dag of main.py                                                    *)
(***************************************************************************)
\* what a for loop over a Python value yields: the elements of a list, the
\* one-character strings of a str
Iterate(v) == IF v.kind = "list" THEN v.val ELSE [i \in 1..Len(v.val) |-> <<v.val[i]>>]

\* product with the first argument varying fastest
RECURSIVE ProductFirstFastest(_, _)
ProductFirstFastest(a, b) ==
  IF b = <<>> THEN <<>>
  ELSE [i \in 1..Len(a) |-> <<a[i], Head(b)>>] \o ProductFirstFastest(a, Tail(b))

\* itertools.product(a, b) as a list: the last argument varies fastest
RECURSIVE product(_, _)
product(a, b) ==
  IF a = <<>> THEN <<>>
  ELSE [j \in 1..Len(b) |-> <<Head(a), b[j]>>] \o product(Tail(a), b)

\* detectors_list with the single-detector entries appended whatever the flag
DetectorsListIgnoringFlag(inp) ==
  <<inp.include_detectors>> \o
  [i \in 1..Len(inp.include_detectors) |-> <<inp.include_detectors[i]>>]

\* detectors_list of Dag.jobs_inputs
detectors_list(inp) ==
  <<inp.include_detectors>> \o
  (IF inp.coherence_test
   THEN [i \in 1..Len(inp.include_detectors) |-> <<inp.include_detectors[i]>>]
   ELSE <<>>)

\* the property Dag.jobs_inputs
jobs_inputs(inp) ==
  LET sampler_list == Iterate(inp.sampler)
      prod_list == product(detectors_list(inp), sampler_list)
  IN [i \in 1..Len(prod_list) |->
        [detectors |-> prod_list[i][1], sampler |-> prod_list[i][2]]]

\* '{}_{}_{}'.format(label, ''.join(detectors), sampler)
run_label(label, detectors, sampler) ==
  label \o <<"_">> \o Join(detectors) \o <<"_">> \o sampler

\* no Dag instance
NoDag == [kind |-> "None"]

\* a keyword the caller of Dag does not pass
NotGiven == [kind |-> "not given"]

\* the keyword arguments of Dag(inputs), as main() calls it: the defaults of
\* the signature, and no other keyword
DefaultKwargs ==
  [request_memory |-> None, request_disk |-> None, request_cpus |-> None,
   job_logs |-> NotGiven]

\* the parameters of Dag.__init__ the model follows
DagParameters == {"request_memory", "request_disk", "request_cpus"}

\* the keywords of a call that Dag.__init__ has no parameter for
UnexpectedKeywords(kw) == {k \in DOMAIN kw : k \notin DagParameters /\ kw[k] # NotGiven}

\* what Python raises for such a call
UnexpectedKeyword ==
  Raise("TypeError", "__init__() got an unexpected keyword argument {}", <<"job_logs">>)

\* an evaluation that uses the sampler list up
InputsAfterConsumingSamplers(inp) == [inp EXCEPT !.sampler = PyList(<<>>)]

\* the Input after an evaluation of Dag.jobs_inputs: the property assigns
\* nothing and mutates no list of the Input
inputs_after_jobs_inputs(inp) == inp

\* the attributes Dag.__init__ sets from its keyword arguments
Dag_attributes(kw) ==
  [kind |-> "Dag",
   request_memory |-> kw.request_memory,
   request_disk |-> kw.request_disk,
   request_cpus |-> kw.request_disk]

\* one '--detectors' word for all the detectors
DetectorArgumentsOneFlag(detectors) ==
  IF detectors = <<>> THEN <<>>
  ELSE <<" ", "--detectors">> \o Join([i \in 1..Len(detectors) |-> <<" ">> \o detectors[i]])

\* the loop that appends ' --detectors {}' for each detector
RECURSIVE detector_arguments(_)
detector_arguments(detectors) ==
  IF detectors = <<>> THEN <<>>
  ELSE <<" ", "--detectors", " ">> \o Head(detectors) \o detector_arguments(Tail(detectors))

\* the str arguments of Dag._create_job
job_arguments(inp, detectors, sampler) ==
  <<"--ini", " ">> \o inp.ini
  \o detector_arguments(detectors)
  \o <<" ", "--sampler", " ">> \o sampler
  \o <<" ", "--cluster", " ", "$(Cluster)">>
  \o <<" ", "--process", " ", "$(Process)">>
  \o <<" ">> \o JoinWith(inp.unknown_args, <<" ">>)

\* Dag._create_job: the pycondor.Job it returns, or the exception it raises;
\* id stands for the identity of the new object
create_job(inp, d, id, detectors, sampler) ==
  LET x509 == x509userproxy_getter(inp)
  IN IF ~x509.ok THEN [ok |-> FALSE, job |-> None, error |-> x509.error]
     ELSE [ok |-> TRUE, error |-> NoError,
           job |-> [id |-> id,
                    name |-> run_label(inp.label, detectors, sampler),
                    detectors |-> detectors,
                    sampler |-> sampler,
                    executable |-> inp.executable,
                    accounting_group |-> inp.accounting,
                    x509userproxy |-> x509.val,
                    arguments |-> job_arguments(inp, detectors, sampler),
                    request_memory |-> d.request_memory,
                    request_disk |-> d.request_disk,
                    request_cpus |-> d.request_cpus,
                    parents |-> {}]]

\* the parents of a loop that stops one job early
PostJobParentsButLast(js) == {js[i].id : i \in 1..(Len(js) - 1)}

\* a loop that also adds post_job to its own parents
PostJobParentsWithItself(js) == {js[i].id : i \in 1..Len(js)} \cup {Len(js) + 1}

\* the parents the loop over self.jobs adds to post_job
post_job_parents(js) == {js[i].id : i \in 1..Len(js)}

\* expected result files that leave the last job out
ExpectedH5FilesButLast(inp, js) ==
  [i \in 1..(Len(js) - 1) |-> PathStr(inp.outdir) \o <<"/">> \o js[i].name \o <<"_result.h5">>]

\* expected_h5_files of Dag.create_postprocessing_jobs
expected_h5_files(inp, js) ==
  [i \in 1..Len(js) |-> PathStr(inp.outdir) \o <<"/">> \o js[i].name \o <<"_result.h5">>]

\* the job Dag.create_postprocessing_jobs creates
create_postprocessing_job(inp, id, js) ==
  LET name == inp.label \o <<"_", "c", "o", "m", "b", "i", "n", "e", "_",
                             "r", "e", "s", "u", "l", "t", "s">>
      ji == jobs_inputs(inp)
      labels == JoinWith([i \in 1..Len(ji) |-> Join(ji[i].detectors)], <<" ">>)
  IN [id |-> id,
      name |-> name,
      accounting_group |-> inp.accounting,
      arguments |-> <<"-r", " ">> \o JoinWith(expected_h5_files(inp, js), <<" ">>)
                    \o <<" ", "-f", " ">> \o PathStr(inp.outdir) \o <<"/">> \o name
                    \o <<"_corner.png">> \o <<" ", "-l", " ">> \o labels,
      parents |-> post_job_parents(js)]

(***************************************************************************)
(* The analysis executable a leaf job launches (bilby_pipe/data_analysis.py) *)
(***************************************************************************)
\* the values that follow each occurrence of flag among the words
RECURSIVE OptionValues(_, _)
OptionValues(words, flag) ==
  IF Len(words) < 2 THEN <<>>
  ELSE IF Head(words) = flag
       THEN <<words[2]>> \o OptionValues(Tail(Tail(words)), flag)
       ELSE OptionValues(Tail(words), flag)

\* --label of create_parser: default 'label'
AnalysisDefaultLabel == <<"l", "a", "b", "e", "l">>

\* create_parser applied to the words of the arguments of a leaf job and to
\* the ini file they name: --detectors appends, the last --sampler stands,
\* the label is that of the ini file or the default
create_parser_parse(words, inifile) ==
  LET detectors == OptionValues(words, <<"--detectors">>)
      samplers == OptionValues(words, <<"--sampler">>)
      labels == OptionValues(words, <<"--label">>)
  IN [detectors |-> IF detectors = <<>> THEN None ELSE PyList(detectors),
      sampler |-> IF samplers = <<>> THEN None ELSE PyStr(samplers[Len(samplers)]),
      label |-> IF labels # <<>> THEN PyStr(labels[Len(labels)])
                ELSE IF inifile.label # None THEN inifile.label
                ELSE PyStr(AnalysisDefaultLabel)]

\* str(v) as format() inserts it
Str(v) == IF v.kind = "None" THEN <<"None">> ELSE v.val

\* DataAnalysisInput.run_label: ''.join(None) is a TypeError
DataAnalysisInput_run_label(a) ==
  IF a.detectors = None
  THEN [ok |-> FALSE, val |-> <<>>,
        error |-> Raise("TypeError", "can only join an iterable", <<>>)]
  ELSE [ok |-> TRUE, error |-> NoError,
        val |-> Str(a.label) \o <<"_">> \o Join(a.detectors.val) \o <<"_">> \o Str(a.sampler)]

(***************************************************************************)
(* Dag.build_submit                                                        *)
(***************************************************************************)
\* a build_submit that always renders only
BackendCallAlwaysBuild(inp) == "build"

\* the pycondor.Dagman method Dag.build_submit calls
backend_call(inp) == IF inp.submit THEN "build_submit" ELSE "build"

(***************************************************************************)
(* The arguments of one run.                                               *)
(***************************************************************************)
h1 == <<"h", "1">>
X1 == <<"X", "1">>
\* the tokens of the raw include_detectors values: known detectors, one in
\* lower case, one unknown
DetTokens == {H1, L1, h1, X1}
PlainTokens == {H1, L1, h1}

\* the lists of at most n elements of S
SeqsUpTo(S, n) == UNION {[1..k -> S] : k \in 0..n}

TokenLists == SeqsUpTo(DetTokens, MaxDets)
PlainTokenLists == SeqsUpTo(PlainTokens, MaxDets)

\* one delimited string per token list and delimiter
SpaceString(ts) == JoinWith(ts, <<" ">>)
CommaString(ts) == JoinWith(ts, <<",">>)
BracketString(ts) == <<"[">> \o JoinWith(ts, <<",", " ">>) \o <<"]">>
DetStrings(ts) == {SpaceString(ts), CommaString(ts), BracketString(ts)}

\* every form of include_detectors: a delimited string, a one-element list
\* holding it, a list of tokens, and a value that is neither str nor list
AllDetInputs ==
  {None} \cup
  UNION {{PyList(ts)} \cup {PyStr(s) : s \in DetStrings(ts)}
                      \cup {PyList(<<s>>) : s \in DetStrings(ts)} : ts \in TokenLists}

\* the forms the command line produces: a list of tokens, a space-delimited string
PlainDetInputs == UNION {{PyList(ts), PyStr(SpaceString(ts))} : ts \in PlainTokenLists}

nestle == <<"n", "e", "s", "t", "l", "e">>
dynesty == <<"d", "y", "n", "e", "s", "t", "y">>
SamplerIds == {nestle, dynesty}

\* --sampler: a list of samplers, or the parser's default, the str 'dynesty'
SamplerInputs == {PyList(l) : l \in SeqsUpTo(SamplerIds, MaxSamplers)} \cup {PyStr(dynesty)}

Label == <<"l", "b", "l">>

X509Inputs == {None, PyStr(<<"X509.txt">>), PyStr(<<"nofile.txt">>)}

NoEnv == [v \in {} |-> <<>>]
Environments ==
  {NoEnv, [v \in {"X509_USER_PROXY"} |-> <<"tmp", "x509up_u1000">>],
          [v \in {"X509_USER_PROXY"} |-> <<"tmp", "deleted">>]}

Executables == {<<"bbh_from_gracedb">>, <<"nowhere">>}

\* the three paths the executable setter looks at
ExecutableCandidates(executable) ==
  {Abspath(executable),
   PkgParent \o <<"lib_scripts">> \o executable,
   WithSuffix(PkgParent \o <<"lib_scripts">> \o executable, ".py")}

\* the arguments the parser does not know, each a str
UnknownArgsInputs ==
  {<<>>, <<<<"--argument">>, <<"value">>>>, <<<<"--zeta">>, <<"--alpha">>, <<"1">>>>}

\* the resource requests a caller of Dag may give
MemoryRequests == {None, PyStr(<<"4GB">>)}
DiskRequests == {None, PyStr(<<"1GB">>)}
CpuRequests == {None, PyInt(2)}
JobLogsInputs == {NotGiven, PyStr(<<"test">>)}
KwargsInputs ==
  [request_memory : MemoryRequests, request_disk : DiskRequests, request_cpus : CpuRequests,
   job_logs : JobLogsInputs]

\* the files that exist when the run starts
InitialFiles ==
  {Cwd \o <<"X509.txt">>, <<"tmp", "x509up_u1000">>,
   PkgParent \o <<"lib_scripts", "bbh_from_gracedb.py">>}

\* the arguments of tests/dag_test.py the parser does not know
TestUnknownArgs == <<<<"--argument">>, <<"value">>>>

Namespace(dets, sampler, coherence, submit, X509, exe, exe_help, unknown_args) ==
  [ini |-> <<"file.ini">>, submit |-> submit, outdir |-> <<"outdir">>, label |-> Label,
   queue |-> 1, create_summary |-> FALSE, accounting |-> "accounting.group",
   include_detectors |-> dets, coherence_test |-> coherence, executable |-> exe,
   exe_help |-> exe_help, X509 |-> X509, sampler |-> sampler,
   unknown_args |-> unknown_args]

\* the ini file of a run: the keys the model follows, None if the file does
\* not set the key
TestIni == [label |-> PyStr(Label)]
IniFiles == {TestIni, [label |-> None]}

\* --label on the command line of main, or not given
LabelArguments == {None, PyStr(<<"r", "u", "n">>)}

\* --label of parse_args: default 'LABEL'
MainDefaultLabel == <<"L", "A", "B", "E", "L">>

\* the label parse_args yields: the command line, else the ini file, else
\* the default
parse_args_label(cli, inifile) ==
  IF cli # None THEN cli.val
  ELSE IF inifile.label # None THEN inifile.label.val
  ELSE MainDefaultLabel

\* the attributes of an object of the superclass Input of input.py, all unset
NewSuperclassObject ==
  [detectors |-> Unset, gpstimes |-> Unset, timeslides_list |-> Unset,
   prior_file |-> Unset, distance_marginalization_lookup_table |-> Unset,
   trigger_time |-> Unset, post_trigger_duration |-> Unset, duration |-> Unset,
   start_time |-> Unset]

\* no call was made on an object of the superclass
NoSuperclassObject ==
  /\ self = NewSuperclassObject
  /\ calls = <<>>
  /\ result = None

superVars == <<self, calls, result>>

\* before main() has done anything
MainNotStarted ==
  /\ pc = "main"
  /\ inputs = NoInput
  /\ dag = NoDag
  /\ error = NoError
  /\ todo = <<>>
  /\ jobs = <<>>
  /\ post_job = None
  /\ backend = <<>>
  /\ evals = <<>>

\* before main() has done anything, and no object of the superclass in use
StartOfMain ==
  /\ MainNotStarted
  /\ NoSuperclassObject

\* main() as the command line starts it: Dag(inputs) with no keyword argument
Start ==
  /\ fs = InitialFiles
  /\ kwargs = DefaultKwargs
  /\ ini = TestIni
  /\ StartOfMain

\* the runs of the pipeline: include_detectors in the forms the command line
\* produces, every sampler value, credential argument and environment; the
\* executable is one of lib_scripts and --exe-help is not given
Init ==
  /\ \E dets \in PlainDetInputs, sampler \in SamplerInputs, coherence \in BOOLEAN,
        submit \in BOOLEAN, X509 \in X509Inputs :
       args = Namespace(dets, sampler, coherence, submit, X509, <<"bbh_from_gracedb">>, FALSE,
                        TestUnknownArgs)
  /\ env \in Environments
  /\ Start

\* every form of include_detectors, the other arguments as in tests/dag_test.py
InitDetectors ==
  /\ \E dets \in AllDetInputs, coherence \in BOOLEAN :
       args = Namespace(dets, PyList(<<nestle>>), coherence, FALSE, None,
                        <<"bbh_from_gracedb">>, FALSE, TestUnknownArgs)
  /\ env \in Environments
  /\ Start

\* the arguments Input.__init__ resolves against the file system and the
\* environment, for a few include_detectors and sampler values: every
\* combination of existing executable candidates, and the unknown arguments
InitArguments ==
  /\ \E dets \in {PyStr(SpaceString(<<H1, L1>>)), PyStr(H1), PyStr(X1)},
        sampler \in {PyList(<<nestle>>), PyStr(dynesty)}, coherence \in BOOLEAN,
        submit \in BOOLEAN, X509 \in X509Inputs, exe \in Executables, exe_help \in BOOLEAN,
        unknown_args \in UnknownArgsInputs :
       /\ args = Namespace(dets, sampler, coherence, submit, X509, exe, exe_help, unknown_args)
       /\ \E files \in SUBSET ExecutableCandidates(exe) : fs = InitialFiles \cup files
  /\ env \in Environments
  /\ kwargs = DefaultKwargs
  /\ ini = TestIni
  /\ StartOfMain

\* the keyword arguments of Dag, for a few configurations
InitDag ==
  /\ \E dets \in {PyStr(SpaceString(<<H1, L1>>)), PyStr(H1)},
        sampler \in {PyList(<<nestle>>), PyList(<<nestle, dynesty>>)}, coherence \in BOOLEAN,
        submit \in BOOLEAN :
       args = Namespace(dets, sampler, coherence, submit, PyStr(<<"X509.txt">>),
                        <<"bbh_from_gracedb">>, FALSE, TestUnknownArgs)
  /\ kwargs \in KwargsInputs
  /\ env = NoEnv
  /\ fs = InitialFiles
  /\ ini = TestIni
  /\ StartOfMain

\* where the label comes from, for a few configurations: the ini file sets it
\* or not, the command line gives it or not
InitAnalysis ==
  /\ ini \in IniFiles
  /\ \E dets \in {PyStr(SpaceString(<<H1, L1>>)), PyStr(H1)},
        sampler \in {PyList(<<nestle>>), PyList(<<nestle, dynesty>>)}, coherence \in BOOLEAN,
        submit \in BOOLEAN, cli \in LabelArguments, unknown_args \in UnknownArgsInputs :
       args = [Namespace(dets, sampler, coherence, submit, PyStr(<<"X509.txt">>),
                         <<"bbh_from_gracedb">>, FALSE, unknown_args)
               EXCEPT !.label = parse_args_label(cli, ini)]
  /\ kwargs = DefaultKwargs
  /\ env = NoEnv
  /\ fs = InitialFiles
  /\ StartOfMain

(***************************************************************************)
(* The steps of main().                                                    *)
(***************************************************************************)
\* inputs = Input(args, unknown_args)
NewInput ==
  /\ pc = "main"
  /\ LET r == Input_init(args, args.unknown_args, env, fs)
     IN /\ inputs' = r.self
        /\ fs' = r.fs
        /\ error' = r.error
        /\ pc' = CASE r.end = "ok" -> "Dag"
                   [] r.end = "raised" -> "raised"
                   [] r.end = "exited" -> "exited"
  /\ UNCHANGED <<args, kwargs, env, dag, todo, jobs, post_job, backend, ini, evals>>
  /\ UNCHANGED superVars

\* Dag.__init__ up to the loop of create_jobs, which evaluates jobs_inputs once
NewDag ==
  /\ pc = "Dag"
  /\ IF UnexpectedKeywords(kwargs) # {}
     THEN /\ pc' = "raised"
          /\ error' = UnexpectedKeyword
          /\ UNCHANGED <<dag, jobs, todo, evals, inputs>>
     ELSE /\ dag' = Dag_attributes(kwargs)
          /\ jobs' = <<>>
          /\ todo' = jobs_inputs(inputs)
          /\ evals' = Append(evals, jobs_inputs(inputs))
          /\ inputs' = inputs_after_jobs_inputs(inputs)
          /\ pc' = "create_jobs"
          /\ UNCHANGED error
  /\ UNCHANGED <<args, kwargs, env, fs, post_job, backend, ini>>
  /\ UNCHANGED superVars

\* one turn of the loop of create_jobs
CreateJob ==
  /\ pc = "create_jobs"
  /\ todo # <<>>
  /\ LET r == create_job(inputs, dag, Len(jobs) + 1, Head(todo).detectors, Head(todo).sampler)
     IN IF r.ok
        THEN /\ jobs' = Append(jobs, r.job)
             /\ todo' = Tail(todo)
             /\ UNCHANGED <<pc, error>>
        ELSE /\ pc' = "raised"
             /\ error' = r.error
             /\ UNCHANGED <<jobs, todo>>
  /\ UNCHANGED <<args, kwargs, env, fs, inputs, dag, post_job, backend, ini, evals>>
  /\ UNCHANGED superVars

\* create_postprocessing_jobs, after the loop of create_jobs; it evaluates
\* jobs_inputs again for the labels
CreatePostprocessingJobs ==
  /\ pc = "create_jobs"
  /\ todo = <<>>
  /\ post_job' = create_postprocessing_job(inputs, Len(jobs) + 1, jobs)
  /\ evals' = Append(evals, jobs_inputs(inputs))
  /\ inputs' = inputs_after_jobs_inputs(inputs)
  /\ pc' = "build_submit"
  /\ UNCHANGED <<args, kwargs, env, fs, dag, error, todo, jobs, backend, ini>>
  /\ UNCHANGED superVars

\* what pycondor raises when the scheduler rejects the graph
BackendError == Raise("pycondor", "the backend failed", <<>>)

\* Dag.build_submit: one call of the backend, which returns or raises; the
\* exception is not caught
BuildSubmit ==
  /\ pc = "build_submit"
  /\ backend' = Append(backend, backend_call(inputs))
  /\ \E outcome \in {"returned", "raised"} :
       IF outcome = "returned"
       THEN pc' = "done" /\ UNCHANGED error
       ELSE pc' = "raised" /\ error' = BackendError
  /\ UNCHANGED <<args, kwargs, env, fs, inputs, dag, todo, jobs, post_job, ini, evals>>
  /\ UNCHANGED superVars

\* a caller reads dag.jobs_inputs of the constructed Dag, as
\* tests/dag_test.py does
ReadJobsInputs ==
  /\ pc = "done"
  /\ Len(evals) < MaxEvaluations
  /\ evals' = Append(evals, jobs_inputs(inputs))
  /\ inputs' = inputs_after_jobs_inputs(inputs)
  /\ UNCHANGED <<args, kwargs, env, fs, pc, dag, error, todo, jobs, post_job, backend, ini>>
  /\ UNCHANGED superVars

Next ==
  NewInput \/ NewDag \/ CreateJob \/ CreatePostprocessingJobs \/ BuildSubmit
  \/ ReadJobsInputs

Spec == Init /\ [][Next]_vars

SpecDetectors == InitDetectors /\ [][Next]_vars

SpecArguments == InitArguments /\ [][Next]_vars

SpecDag == InitDag /\ [][Next]_vars

SpecAnalysis == InitAnalysis /\ [][Next]_vars


(***************************************************************************)
(* class Input of input.py, the superclass of the input handlers: calls   *)
(* made on one object, each logged in calls with its argument, its outcome *)
(* kept in result.                                                         *)
(***************************************************************************)
mainVars ==
  <<args, kwargs, env, fs, pc, inputs, dag, error, todo, jobs, post_job, backend, ini, evals>>

\* main() is not run: the arguments of tests/dag_test.py, never used
NoRun ==
  /\ args = Namespace(PyStr(H1), PyList(<<nestle>>), FALSE, FALSE, PyStr(<<"X509.txt">>),
                      <<"bbh_from_gracedb">>, FALSE, TestUnknownArgs)
  /\ kwargs = DefaultKwargs
  /\ env = NoEnv
  /\ ini = TestIni
  /\ MainNotStarted

\* the outcome of a call
Returned(v) == [kind |-> "returned", val |-> v, error |-> NoError]
Raised(e) == [kind |-> "raised", val |-> None, error |-> e]

Call(op, arg) == [op |-> op, arg |-> arg]

\* utils.convert_detectors_input: the tokens of a delimited str or of a
\* list, in sorted order
convert_detectors_input(v) ==
  IF v.kind = "str" THEN SortList(convert_string_to_list(v.val)) ELSE SortList(v.val)

\* the known_detectors getter, _known_detectors never assigned
known_detectors_getter == <<H1, L1, V1>>

\* the detectors setter: it stores the converted list, then checks it
detectors_setter(s, v) ==
  LET converted == convert_detectors_input(v)
      s1 == [s EXCEPT !.detectors = PyList(converted)]
      unknown == FirstUnknown(converted, known_detectors_getter)
  IN IF HasUnknown(converted, known_detectors_getter)
     THEN [self |-> s1,
           result |-> Raised(Raise("BilbyPipeError",
                       "detectors contains {} not in the known detectors list: {} ",
                       <<unknown, known_detectors_getter>>))]
     ELSE [self |-> s1, result |-> Returned(None)]

\* the values assigned to detectors
DetectorsAssigned ==
  {PyStr(SpaceString(<<H1, L1>>)), PyStr(CommaString(<<L1, H1>>)), PyStr(H1),
   PyList(<<L1, V1>>), PyStr(X1), PyList(<<H1, X1>>)}

InitDetectorsAttribute ==
  /\ fs = InitialFiles
  /\ NoRun
  /\ NoSuperclassObject

\* self.detectors = v
SetDetectors ==
  /\ Len(calls) < MaxCalls
  /\ \E v \in DetectorsAssigned :
       LET r == detectors_setter(self, v)
       IN /\ self' = r.self
          /\ result' = r.result
          /\ calls' = Append(calls, Call("detectors", v))
  /\ UNCHANGED mainVars

NextDetectorsAttribute == SetDetectors

SpecDetectorsAttribute == InitDetectorsAttribute /\ [][NextDetectorsAttribute]_vars

\* the directory of the prior files the package ships
DataFiles == PkgParent \o <<"bilby_pipe", "data_files">>

\* the names glob may find there
PriorNames == {"4s", "128s"}

\* get_default_prior_files: name -> file, for each data_files/<name>.prior
default_prior_files(f) ==
  [n \in {m \in PriorNames : DataFiles \o <<m \o ".prior">> \in f} |->
     DataFiles \o <<n \o ".prior">>]

\* get_distance_file_lookup_table
get_distance_file_lookup_table(f, prior_file_str) ==
  LET direc == SubSeq(default_prior_files(f)[prior_file_str], 1, Len(DataFiles))
  IN direc \o <<prior_file_str \o "_distance_marginalization_lookup.npz">>

\* a setter that stores whatever it is given
LookupTableSetterNoneClears(s, v) ==
  [s EXCEPT !.distance_marginalization_lookup_table = v]

\* the distance_marginalization_lookup_table setter
distance_marginalization_lookup_table_setter(s, v) ==
  IF v = None
  THEN IF s.distance_marginalization_lookup_table # Unset
       THEN s
       ELSE [s EXCEPT !.distance_marginalization_lookup_table = None]
  ELSE [s EXCEPT !.distance_marginalization_lookup_table = v]

\* the prior_file setter; nested lists the setter calls it makes
prior_file_setter(s, f, prior_file) ==
  IF prior_file = None
  THEN [self |-> [s EXCEPT !.prior_file = None], result |-> Returned(None), nested |-> <<>>]
  ELSE IF IsFile(f, prior_file.val)
  THEN [self |-> [s EXCEPT !.prior_file = prior_file], result |-> Returned(None),
        nested |-> <<>>]
  ELSE IF IsFile(f, <<Basename(prior_file.val)>>)
  THEN [self |-> [s EXCEPT !.prior_file = PyStr(<<Basename(prior_file.val)>>)],
        result |-> Returned(None), nested |-> <<>>]
  ELSE IF Len(prior_file.val) = 1 /\ prior_file.val[1] \in DOMAIN default_prior_files(f)
  THEN LET name == prior_file.val[1]
           table == PyStr(get_distance_file_lookup_table(f, name))
           s1 == [s EXCEPT !.prior_file = PyStr(default_prior_files(f)[name])]
       IN [self |-> distance_marginalization_lookup_table_setter(s1, table),
           result |-> Returned(None),
           nested |-> <<Call("distance_marginalization_lookup_table", table)>>]
  ELSE [self |-> s, nested |-> <<>>,
        result |-> Raised(Raise("FileNotFoundError", "No prior file {} available",
                                <<prior_file>>))]

\* the values assigned to distance_marginalization_lookup_table
TablesAssigned == {None, PyStr(<<"a.npz">>), PyStr(<<"b.npz">>)}

\* the values assigned to prior_file: an existing file, a file moved to the
\* working directory, the name of a default prior, a name of nothing
PriorFilesAssigned ==
  {None, PyStr(<<"my.prior">>), PyStr(<<"elsewhere", "moved.prior">>), PyStr(<<"4s">>),
   PyStr(<<"128s">>)}

InitLookupTable ==
  /\ fs = InitialFiles \cup {Cwd \o <<"my.prior">>, Cwd \o <<"moved.prior">>,
                              DataFiles \o <<"4s.prior">>}
  /\ NoRun
  /\ NoSuperclassObject

\* self.distance_marginalization_lookup_table = v
SetLookupTable ==
  /\ Len(calls) < MaxCalls
  /\ \E v \in TablesAssigned :
       /\ self' = distance_marginalization_lookup_table_setter(self, v)
       /\ result' = Returned(None)
       /\ calls' = Append(calls, Call("distance_marginalization_lookup_table", v))
  /\ UNCHANGED mainVars

\* self.prior_file = v
SetPriorFile ==
  /\ Len(calls) < MaxCalls
  /\ \E v \in PriorFilesAssigned :
       LET r == prior_file_setter(self, fs, v)
       IN /\ self' = r.self
          /\ result' = r.result
          /\ calls' = Append(calls, Call("prior_file", v)) \o r.nested
  /\ UNCHANGED mainVars

NextLookupTable == SetLookupTable \/ SetPriorFile

SpecLookupTable == InitLookupTable /\ [][NextLookupTable]_vars

\* what np.loadtxt(timeslide_file, ndmin=2) reads: rows by cols numbers, each
\* one telling its row and column
TimeslideFile(rows, cols) == [r \in 1..rows |-> [c \in 1..cols |-> 10 * r + c]]

TimeslideFiles == {TimeslideFile(rows, cols) : rows \in 1..MaxRows, cols \in 1..2}

\* _parse_timeslide_file: one array of rows per detector
parse_timeslide_file(s, file) ==
  LET number_rows == Len(file)
      number_columns == Len(file[1])
      detectors == s.detectors.val
  IN IF number_columns # Len(detectors)
     THEN [self |-> s,
           result |-> Raised(Raise("BilbyPipeError",
             "The timeslide file must have one column for each of the detectors. Number Cols: {}, Number Detectors: {}",
             <<number_columns, Len(detectors)>>))]
     ELSE IF number_rows # Len(s.gpstimes.val)
     THEN [self |-> s,
           result |-> Raised(Raise("BilbyPipeError",
             "The timeslide file must have one row for each gps time. Number Rows: {}, Number Gps Times: {}",
             <<number_rows, Len(s.gpstimes.val)>>))]
     ELSE [self |-> [s EXCEPT !.timeslides_list =
                       [d \in Range(detectors) |->
                          LET i == CHOOSE k \in 1..Len(detectors) : detectors[k] = d
                          IN [r \in 1..number_rows |-> file[r][i]]]],
           result |-> Returned(None)]

\* array[idx] of numpy: a negative index counts from the end
Indexable(array, idx) == idx >= -Len(array) /\ idx < Len(array)
Item(array, idx) == IF idx >= 0 THEN array[idx + 1] ELSE array[Len(array) + idx + 1]

\* get_timeslide_dict; len() of the dict is the number of its keys
get_timeslide_dict(s, idx) ==
  IF s.timeslides_list = Unset
  THEN Raised(Raise("BilbyPipeError", "Timeslide file must be provided.", <<>>))
  ELSE IF idx > Cardinality(DOMAIN s.timeslides_list)
  THEN Raised(Raise("BilbyPipeError", "Valid timeslide index must be provided.", <<>>))
  ELSE IF \E det \in DOMAIN s.timeslides_list : ~Indexable(s.timeslides_list[det], idx)
  THEN Raised(Raise("IndexError", "index {} is out of bounds", <<idx>>))
  ELSE Returned([det \in DOMAIN s.timeslides_list |-> Item(s.timeslides_list[det], idx)])

\* an object with one or two detectors and up to MaxRows gps times
InitTimeslides ==
  /\ \E detectors \in {<<H1>>, <<H1, L1>>}, n \in 1..MaxRows :
       self = [NewSuperclassObject EXCEPT !.detectors = PyList(detectors),
                                          !.gpstimes = PyList([i \in 1..n |-> 100 * i])]
  /\ calls = <<>>
  /\ result = None
  /\ fs = InitialFiles
  /\ NoRun

\* self._parse_timeslide_file(), the file holding rows by cols numbers
ParseTimeslideFile ==
  /\ Len(calls) < MaxCalls
  /\ \E file \in TimeslideFiles :
       LET r == parse_timeslide_file(self, file)
       IN /\ self' = r.self
          /\ result' = r.result
          /\ calls' = Append(calls, Call("_parse_timeslide_file", <<Len(file), Len(file[1])>>))
  /\ UNCHANGED mainVars

\* self.get_timeslide_dict(idx)
GetTimeslideDict ==
  /\ Len(calls) < MaxCalls
  /\ \E idx \in (-MaxRows - 1)..(MaxRows + 1) :
       /\ result' = get_timeslide_dict(self, idx)
       /\ calls' = Append(calls, Call("get_timeslide_dict", idx))
  /\ UNCHANGED self
  /\ UNCHANGED mainVars

NextTimeslides == ParseTimeslideFile \/ GetTimeslideDict

SpecTimeslides == InitTimeslides /\ [][NextTimeslides]_vars

\* what trigger_time, post_trigger_duration, duration and start_time are set to
TimeValues == {None, PyInt(1), PyInt(2)}

\* self.trigger_time + self.post_trigger_duration - self.duration, evaluated
\* left to right: a missing attribute is an AttributeError, None in the
\* arithmetic a TypeError
inferred_start_time(s) ==
  IF s.trigger_time = Unset
  THEN Raised(Raise("AttributeError", "object has no attribute {}", <<"_trigger_time">>))
  ELSE IF s.post_trigger_duration = Unset
  THEN Raised(Raise("AttributeError", "object has no attribute {}", <<"post_trigger_duration">>))
  ELSE IF s.trigger_time = None \/ s.post_trigger_duration = None
  THEN Raised(Raise("TypeError", "unsupported operand type(s) for +", <<>>))
  ELSE IF s.duration = Unset
  THEN Raised(Raise("AttributeError", "object has no attribute {}", <<"_duration">>))
  ELSE IF s.duration = None
  THEN Raised(Raise("TypeError", "unsupported operand type(s) for -", <<>>))
  ELSE Returned(PyInt(s.trigger_time.val + s.post_trigger_duration.val - s.duration.val))

AttributeError(r) == r.kind = "raised" /\ r.error.exc = "AttributeError"

\* _verify_start_time: returns None, or raises
verify_start_time(s, start_time) ==
  LET inferred == inferred_start_time(s)
  IN IF AttributeError(inferred) THEN Returned(None)
     ELSE IF inferred.kind = "raised" THEN inferred
     ELSE IF inferred.val # start_time
     THEN Raised(Raise("BilbyPipeError", "Unexpected behaviour encountered with start time", <<>>))
     ELSE Returned(None)

\* a start_time getter that returns the stored value without verifying it
StartTimeGetterNoVerify(s) ==
  LET inferred == inferred_start_time(s)
  IN IF s.start_time # Unset THEN [self |-> s, result |-> Returned(s.start_time)]
     ELSE IF AttributeError(inferred) THEN [self |-> s, result |-> Returned(None)]
     ELSE IF inferred.kind = "raised" THEN [self |-> s, result |-> inferred]
     ELSE [self |-> [s EXCEPT !.start_time = inferred.val], result |-> inferred]

\* the start_time getter: the object afterwards (the default is stored) and
\* what the read returns or raises
start_time_getter(s) ==
  LET inferred == inferred_start_time(s)
      verified == verify_start_time(s, s.start_time)
  IN IF s.start_time # Unset
     THEN IF verified.kind = "raised" THEN [self |-> s, result |-> verified]
          ELSE [self |-> s, result |-> Returned(s.start_time)]
     ELSE IF AttributeError(inferred) THEN [self |-> s, result |-> Returned(None)]
     ELSE IF inferred.kind = "raised" THEN [self |-> s, result |-> inferred]
     ELSE [self |-> [s EXCEPT !.start_time = inferred.val], result |-> inferred]

\* the start_time setter
start_time_setter(s, start_time) ==
  LET verified == verify_start_time(s, start_time)
  IN IF verified.kind = "raised" THEN [self |-> s, result |-> verified]
     ELSE [self |-> [s EXCEPT !.start_time = start_time], result |-> Returned(None)]

InitStartTime ==
  /\ fs = InitialFiles
  /\ NoRun
  /\ NoSuperclassObject

\* In this specification calls holds the last call only: the attributes take
\* finitely many values, so assignment sequences of every length are covered.

\* self.trigger_time = v
SetTriggerTime ==
  /\ \E v \in TimeValues :
       /\ self' = [self EXCEPT !.trigger_time = v]
       /\ calls' = <<Call("trigger_time=", v)>>
  /\ result' = Returned(None)
  /\ UNCHANGED mainVars

\* self.post_trigger_duration = v
SetPostTriggerDuration ==
  /\ \E v \in TimeValues :
       /\ self' = [self EXCEPT !.post_trigger_duration = v]
       /\ calls' = <<Call("post_trigger_duration=", v)>>
  /\ result' = Returned(None)
  /\ UNCHANGED mainVars

\* self.duration = v
SetDuration ==
  /\ \E v \in TimeValues :
       /\ self' = [self EXCEPT !.duration = v]
       /\ calls' = <<Call("duration=", v)>>
  /\ result' = Returned(None)
  /\ UNCHANGED mainVars

\* self.start_time = v
SetStartTime ==
  /\ \E v \in TimeValues :
       LET r == start_time_setter(self, v)
       IN /\ self' = r.self
          /\ result' = r.result
          /\ calls' = <<Call("start_time=", v)>>
  /\ UNCHANGED mainVars

\* a read of self.start_time
ReadStartTime ==
  /\ LET r == start_time_getter(self)
     IN /\ self' = r.self
        /\ result' = r.result
  /\ calls' = <<Call("start_time", None)>>
  /\ UNCHANGED mainVars

NextStartTime ==
  \/ SetTriggerTime
  \/ SetPostTriggerDuration
  \/ SetDuration
  \/ SetStartTime
  \/ ReadStartTime

SpecStartTime == InitStartTime /\ [][NextStartTime]_vars

(***************************************************************************)
(* Properties.                                                             *)
(***************************************************************************)
Constructed == inputs # NoInput

\* the known-detector registry
Registry == {H1, L1, V1}

IsSorted(l) == \A i \in 1..(Len(l) - 1) : ~StrLess(l[i + 1], l[i])
NoRepeats(l) == \A i, j \in 1..Len(l) : i # j => l[i] # l[j]

\* the (detectors, sampler) pairs of the leaf jobs, in the order of creation
JobSpecs == [i \in 1..Len(jobs) |-> [detectors |-> jobs[i].detectors, sampler |-> jobs[i].sampler]]

\* the k-th entry of the expansion of detector list d over the samplers s when
\* the single-detector entries follow the full list and samplers vary fastest
CoherenceEntry(d, s, k) ==
  LET q == (k - 1) \div Len(s)
      r == (k - 1) % Len(s)
  IN [detectors |-> IF q = 0 THEN d ELSE <<d[q]>>, sampler |-> s[r + 1]]

C2_ParentsAreLeaves ==
  pc \in {"build_submit", "done"} =>
    /\ \A i \in 1..Len(jobs) : jobs[i].id \in post_job.parents
    /\ \A p \in post_job.parents : \E i \in 1..Len(jobs) : jobs[i].id = p
    /\ Cardinality(post_job.parents) = Len(jobs)
    /\ Len(jobs) = Len(jobs_inputs(inputs))

C2_Witness ==
  /\ pc = "done"
  /\ Len(jobs) = 3
  /\ post_job.parents = {jobs[1].id, jobs[2].id, jobs[3].id}
  /\ Cardinality(post_job.parents) = 3

\* a configuration of pairwise distinct detectors and pairwise distinct samplers
DistinctConfiguration ==
  /\ Constructed
  /\ inputs.include_detectors # <<>>
  /\ NoRepeats(inputs.include_detectors)
  /\ inputs.sampler.kind = "list"
  /\ NoRepeats(inputs.sampler.val)

\* C3: the names of all the jobs of a finished graph, the leaf jobs and the
\* combine_results job, are pairwise distinct, for every list of distinct
\* detectors, list of distinct samplers and coherence_test value.
C3_NamesDistinct ==
  (pc = "done" /\ DistinctConfiguration) =>
    /\ \A i, j \in 1..Len(jobs) : i # j => jobs[i].name # jobs[j].name
    /\ \A i \in 1..Len(jobs) : jobs[i].name # post_job.name

\* C4: no two entries of jobs_inputs have the same (detectors, sampler) pair,
\* for every list of distinct detectors, list of distinct samplers and
\* coherence_test value.
C4_PairsDistinct ==
  DistinctConfiguration =>
    LET ji == jobs_inputs(inputs)
    IN \A i, j \in 1..Len(ji) : i # j => ji[i] # ji[j]

\* C5: one detector, one sampler and coherence_test true give exactly one entry.
C5_SingleDetectorOneEntry ==
  (/\ Constructed
   /\ inputs.coherence_test
   /\ Len(inputs.include_detectors) = 1
   /\ inputs.sampler.kind = "list"
   /\ Len(inputs.sampler.val) = 1) =>
    Len(jobs_inputs(inputs)) = 1

RECURSIVE TokensOfList(_)
TokensOfList(l) ==
  IF l = <<>> THEN <<>> ELSE convert_string_to_list(Head(l)) \o TokensOfList(Tail(l))
TokensOf(v) ==
  IF v.kind = "str" THEN convert_string_to_list(v.val)
  ELSE IF v.kind = "list" THEN TokensOfList(v.val)
  ELSE <<>>

\* the detector set a raw value denotes, letter case aside
DetectorSetOf(v) == {Upper(t) : t \in Range(TokensOf(v))}

\* C7: every form of a set of known detectors (one delimited string, a
\* one-element list holding it, a list of tokens, in any order and letter
\* case) makes the setter store the same list: the sorted list of the set.
C7_FormsNormalizeAlike ==
  (/\ pc # "main"
   /\ DetectorSetOf(args.include_detectors) # {}
   /\ DetectorSetOf(args.include_detectors) \subseteq Registry
   /\ Len(TokensOf(args.include_detectors)) = Cardinality(DetectorSetOf(args.include_detectors))) =>
    /\ Constructed
    /\ Range(inputs.include_detectors) = DetectorSetOf(args.include_detectors)
    /\ IsSorted(inputs.include_detectors)
    /\ NoRepeats(inputs.include_detectors)

\* C8: the include_detectors of a constructed Input is non-empty, sorted in
\* ascending order, free of repeats and made of known detectors.
C8_StoredListWellFormed ==
  Constructed =>
    /\ inputs.include_detectors # <<>>
    /\ IsSorted(inputs.include_detectors)
    /\ NoRepeats(inputs.include_detectors)
    /\ Range(inputs.include_detectors) \subseteq Registry

\* the elements the setter looks at: the split of a string or of the only
\* element of a list, the elements of a longer list, in upper case
NormalizedTokens(v) ==
  LET raw == IF v.kind = "str" THEN split_string_by_space(v.val)
             ELSE IF Len(v.val) = 1 THEN split_string_by_space(v.val[1])
             ELSE v.val
  IN {Upper(t) : t \in Range(raw)}

\* C9: if a token of the detector input is not a known detector after
\* normalization, constructing the Input raises a ValueError that names a
\* token of the input that is not known and the registry, no Input results
\* and no job is created.
C9_UnknownTokenRejected ==
  (/\ pc # "main"
   /\ args.include_detectors.kind \in {"str", "list"}
   /\ \E t \in NormalizedTokens(args.include_detectors) : t \notin Registry) =>
    /\ pc = "raised"
    /\ ~Constructed
    /\ jobs = <<>> /\ post_job = None /\ backend = <<>>
    /\ error.exc = "ValueError"
    /\ Len(error.fmt) = 2
    /\ error.fmt[1] \in NormalizedTokens(args.include_detectors) \ Registry
    /\ Range(error.fmt[2]) = Registry

C9_Witness ==
  /\ pc = "raised"
  /\ args.include_detectors = PyList(<<H1, X1>>)
  /\ error.fmt[1] = X1
  /\ ~Constructed

\* C10: without a credential argument, whether X509_USER_PROXY is unset or
\* names a file that does not exist, construction does not fail on the
\* credential and reading x509userproxy afterwards gives None, not an error.
C10_MissingCredentialReadsNone ==
  (/\ pc # "main"
   /\ args.X509 = None
   /\ \/ "X509_USER_PROXY" \notin DOMAIN env
      \/ env["X509_USER_PROXY"] \notin InitialFiles) =>
    /\ error.msg # "Input X509 not a file or not understood"
    /\ Constructed =>
         /\ x509userproxy_getter(inputs).ok
         /\ x509userproxy_getter(inputs).val = None

\* the message of the x509userproxy getter when the attribute was never set
CredentialNotSet == "The X509 user proxy has not been correctly set, please check the logs"

\* no credential argument, and X509_USER_PROXY unset or naming no file
NonFatalCredentialCondition ==
  /\ args.X509 = None
  /\ \/ "X509_USER_PROXY" \notin DOMAIN env
     \/ env["X509_USER_PROXY"] \notin InitialFiles

\* C11: after either non-fatal credential condition, Dag construction does
\* not raise because of the missing credential: the error that ends a run is
\* never the credential error, and a run that ended before the backend was
\* called did not end in Dag construction.
C11_MissingCredentialProceeds ==
  (Constructed /\ NonFatalCredentialCondition) =>
    /\ error.msg # CredentialNotSet
    /\ ~(pc = "raised" /\ backend = <<>>)

\* the messages of the include_detectors setter
DetectorMessages ==
  {"Input include_detectors = {} not understood",
   "include_detectors contains {} not in the known detectors list: {} "}

UnableToIdentify == "Unable to identify executable"

\* C12: the executable setter stores the literal path if it is a file, else
\* the path under lib_scripts if that is a file, else that path with '.py'
\* if that is a file; if none of the three is a file construction raises and
\* no executable is stored.
C12_ExecutableResolution ==
  (pc # "main" /\ error.msg \notin DetectorMessages) =>
    LET literal == args.executable
        library == PkgParent \o <<"lib_scripts">> \o args.executable
        library_py == WithSuffix(library, ".py")
    IN /\ (Abspath(literal) \notin fs /\ library \notin fs /\ library_py \notin fs) =>
            (pc = "raised" /\ error.msg = UnableToIdentify /\ ~Constructed)
       /\ (Abspath(literal) \in fs \/ library \in fs \/ library_py \in fs) =>
            error.msg # UnableToIdentify
       /\ Constructed =>
            /\ inputs.executable \in {literal, library, library_py}
            /\ inputs.executable = literal => Abspath(literal) \in fs
            /\ inputs.executable = library => (Abspath(literal) \notin fs /\ library \in fs)
            /\ inputs.executable = library_py =>
                 (Abspath(literal) \notin fs /\ library \notin fs /\ library_py \in fs)

C12_Witness ==
  /\ Constructed
  /\ ExecutableCandidates(args.executable) \subseteq fs
  /\ inputs.executable = args.executable

\* C13: the name of every leaf job is the label, the detectors of the job
\* joined in sorted order, and the sampler, in that order.
C13_NameFromSortedDetectors ==
  \A i \in 1..Len(jobs) :
    jobs[i].name = inputs.label \o <<"_">> \o Join(SortList(jobs[i].detectors))
                   \o <<"_">> \o jobs[i].sampler

\* one '--detectors' word followed by the detector, for each detector of d
DetectorPairs(d) ==
  [k \in 1..(2 * Len(d)) |-> IF k % 2 = 1 THEN <<"--detectors">> ELSE d[k \div 2]]

\* C14: the words of the arguments of every leaf job are, in order: the ini
\* file argument, one '--detectors d' pair for each detector of the job's
\* entry of jobs_inputs and for no other, the sampler of the entry, the
\* $(Cluster) and $(Process) placeholders, then the unknown arguments in
\* their original order.
C14_ArgumentVector ==
  \A i \in 1..Len(jobs) :
    LET entry == jobs_inputs(inputs)[i]
    IN SplitWhitespace(jobs[i].arguments) =
         <<<<"--ini">>, args.ini>>
         \o DetectorPairs(entry.detectors)
         \o <<<<"--sampler">>, entry.sampler,
              <<"--cluster">>, <<"$(Cluster)">>, <<"--process">>, <<"$(Process)">>>>
         \o args.unknown_args

C14_Witness ==
  /\ Len(jobs) >= 1
  /\ SplitWhitespace(jobs[1].arguments) =
       << <<"--ini">>, <<"file.ini">>, <<"--detectors">>, H1, <<"--detectors">>, L1,
          <<"--sampler">>, nestle, <<"--cluster">>, <<"$(Cluster)">>,
          <<"--process">>, <<"$(Process)">>, <<"--zeta">>, <<"--alpha">>, <<"1">> >>

\* the result file the leaf job named name is expected to write
ResultFile(name) == <<"/", "cwd", "/", "outdir", "/">> \o name \o <<"_result.h5">>

\* C15: the words after '-r' of the arguments of the combine_results job are
\* the expected result files of the leaf jobs, '<outdir>/<name>_result.h5',
\* one per leaf job and in the order of the leaf jobs, and '-f' follows them.
C15_ExpectedResultFiles ==
  post_job # None =>
    LET words == SplitWhitespace(post_job.arguments)
    IN /\ Len(words) >= Len(jobs) + 2
       /\ words[1] = <<"-r">>
       /\ \A i \in 1..Len(jobs) : words[i + 1] = ResultFile(jobs[i].name)
       /\ words[Len(jobs) + 2] = <<"-f">>

C15_Witness ==
  /\ pc = "done"
  /\ Len(jobs) = 3
  /\ SplitWhitespace(post_job.arguments)[4] = ResultFile(Label \o <<"_">> \o L1 \o <<"_">> \o nestle)

\* C16: no combine_results job with an empty parent set is created or handed
\* to the backend: with no leaf job, assembly fails.
C16_NoAggregationWithoutLeaves ==
  /\ post_job # None => post_job.parents # {}
  /\ backend # <<>> => jobs # <<>>

\* C17: the memory, disk and cpus requests of every leaf job are the
\* request_memory, request_disk and request_cpus given to the Dag.
C17_RequestsPassedThrough ==
  \A i \in 1..Len(jobs) :
    /\ jobs[i].request_memory = kwargs.request_memory
    /\ jobs[i].request_disk = kwargs.request_disk
    /\ jobs[i].request_cpus = kwargs.request_cpus

\* C18: no Input instance has an empty sampler list or an empty accounting tag.
C18_SamplerAndAccountingNonEmpty ==
  Constructed =>
    /\ Iterate(inputs.sampler) # <<>>
    /\ inputs.accounting # ""

\* p is directory d or lies under it
IsUnder(p, d) == Len(p) >= Len(d) /\ SubSeq(p, 1, Len(d)) = d

\* C19: when configuration validation fails (unknown detector, unresolvable
\* executable), no leaf job and no combine_results job exists, the backend was
\* not called, and nothing of the run is on disk: neither the run directory
\* nor the copy of the credential.
C19_NothingBeforeValidation ==
  (pc = "raised" /\ error.msg \in DetectorMessages \cup {UnableToIdentify}) =>
    /\ ~Constructed
    /\ jobs = <<>> /\ post_job = None /\ backend = <<>>
    /\ \A p \in fs : ~IsUnder(p, Abspath(args.outdir))

\* C20: the backend is called at most once, after all the leaf jobs and the
\* combine_results job were created; the call is build_submit if and only if
\* submit is true and build otherwise; a Dag construction that ends has made
\* exactly one call, and if the call raised, that error is the one that ends
\* the run (no retry, no second call).
C20_BackendCalledOnce ==
  /\ Len(backend) <= 1
  /\ pc \in {"main", "Dag", "create_jobs", "build_submit", "exited"} => backend = <<>>
  /\ backend # <<>> =>
       /\ post_job # None
       /\ todo = <<>>
       /\ Len(jobs) = Len(jobs_inputs(inputs))
       /\ backend[1] \in {"build", "build_submit"}
       /\ backend[1] = "build_submit" <=> inputs.submit
       /\ pc \in {"done", "raised"}
       /\ pc = "raised" => error = BackendError
       /\ pc = "done" => error = NoError
  /\ pc = "done" => Len(backend) = 1

C20_Witness ==
  /\ pc = "done"
  /\ inputs.submit
  /\ backend = <<"build_submit">>
  /\ Len(jobs) >= 2
  /\ post_job # None

\* C21: a Dag can be constructed with a job_logs keyword argument, and the
\* job_logs attribute of the constructed Dag is the value given.
C21_JobLogsKeyword ==
  (Constructed /\ pc \notin {"main", "Dag"} /\ kwargs.job_logs # NotGiven) =>
    /\ dag # NoDag
    /\ "job_logs" \in DOMAIN dag
    /\ dag.job_logs = kwargs.job_logs

\* the identities of the leaf jobs
LeafIds == {jobs[i].id : i \in 1..Len(jobs)}

\* C22: after Dag construction the graph has two layers: one combine_results
\* job and one leaf job per entry of jobs_inputs, all distinct (leaf jobs + 1
\* jobs in total); no leaf job has a parent, the parents of the
\* combine_results job are leaf jobs, and the combine_results job is a parent
\* of no job.
C22_TwoLayers ==
  pc = "done" =>
    /\ post_job # None
    /\ Len(jobs) = Len(jobs_inputs(inputs))
    /\ Cardinality(LeafIds \cup {post_job.id}) = Len(jobs) + 1
    /\ \A i \in 1..Len(jobs) : jobs[i].parents = {}
    /\ post_job.parents \subseteq LeafIds
    /\ post_job.id \notin post_job.parents
    /\ \A i \in 1..Len(jobs) : post_job.id \notin jobs[i].parents

C22_Witness ==
  /\ pc = "done"
  /\ Len(jobs) = 3
  /\ post_job.id = 4
  /\ post_job.parents = {1, 2, 3}

C24_NoJobFromMalformedEntry ==
  (Constructed /\ inputs.sampler.kind = "list") =>
    \A i \in 1..Len(jobs) :
      /\ jobs[i].detectors # <<>>
      /\ jobs[i].sampler \in Range(inputs.sampler.val)

\* the complete sampler identifiers of the configuration
CompleteSamplers(v) == IF v.kind = "str" THEN {v.val} ELSE Range(v.val)

\* C25: the sampler of every entry of jobs_inputs is one complete sampler
\* identifier of the configuration; with the parser default 'dynesty' there
\* is one entry per detector subset and its sampler is 'dynesty'.
C25_WholeSamplerIdentifiers ==
  Constructed =>
    /\ \A i \in 1..Len(jobs_inputs(inputs)) :
         jobs_inputs(inputs)[i].sampler \in CompleteSamplers(inputs.sampler)
    /\ inputs.sampler = PyStr(dynesty) =>
         /\ Len(jobs_inputs(inputs)) = Len(detectors_list(inputs))
         /\ \A i \in 1..Len(jobs_inputs(inputs)) : jobs_inputs(inputs)[i].sampler = dynesty

\* C26: the run label the analysis executable computes from the arguments
\* of a leaf job (its label, the --detectors in the order passed, the
\* --sampler) is the name of that leaf job, so that the result file the
\* combine_results job expects is the one the leaf job writes.
C26_RunLabelIsJobName ==
  \A i \in 1..Len(jobs) :
    LET analysis == create_parser_parse(SplitWhitespace(jobs[i].arguments), ini)
        label == DataAnalysisInput_run_label(analysis)
    IN label.ok /\ label.val = jobs[i].name

\* the detector list the last accepted assignment of the calls stored, unset
\* if none was accepted
RECURSIVE LastAcceptedDetectors(_)
LastAcceptedDetectors(cs) ==
  IF cs = <<>> THEN Unset
  ELSE LET converted == convert_detectors_input(cs[Len(cs)].arg)
       IN IF \A i \in 1..Len(converted) : converted[i] \in Registry
          THEN PyList(converted)
          ELSE LastAcceptedDetectors(SubSeq(cs, 1, Len(cs) - 1))

\* C27: a rejected assignment to detectors leaves the stored list as it was,
\* so that the stored list is always that of the last accepted assignment,
\* and it holds known detectors only.
C27_RejectedAssignmentStoresNothing ==
  /\ self.detectors = LastAcceptedDetectors(calls)
  /\ self.detectors # Unset =>
       \A i \in 1..Len(self.detectors.val) : self.detectors.val[i] \in Registry

\* the values assigned to distance_marginalization_lookup_table, in order
TablesAssignedSoFar ==
  LET cs == SelectSeq(calls, LAMBDA c : c.op = "distance_marginalization_lookup_table")
  IN [i \in 1..Len(cs) |-> cs[i].arg]

\* the last value of vs that is not None, None if there is none
RECURSIVE LastNonNone(_)
LastNonNone(vs) ==
  IF vs = <<>> THEN None
  ELSE IF vs[Len(vs)] # None THEN vs[Len(vs)]
  ELSE LastNonNone(SubSeq(vs, 1, Len(vs) - 1))

\* C28: after any assignments to distance_marginalization_lookup_table
\* (those of the prior_file setter included) the stored value is the most
\* recent assigned value that is not None, or None if there was none:
\* assigning None never clears a stored table.
C28_LookupTableKeepsLastValue ==
  IF TablesAssignedSoFar = <<>>
  THEN self.distance_marginalization_lookup_table = Unset
  ELSE self.distance_marginalization_lookup_table = LastNonNone(TablesAssignedSoFar)

C28_Witness ==
  /\ Len(TablesAssignedSoFar) = 2
  /\ TablesAssignedSoFar[1] = PyStr(DataFiles \o <<"4s_distance_marginalization_lookup.npz">>)
  /\ TablesAssignedSoFar[2] = None
  /\ self.distance_marginalization_lookup_table = TablesAssignedSoFar[1]

\* the rows of the parsed timeslide file
NumberOfRows == Len(self.timeslides_list[self.detectors.val[1]])

\* C29: once a timeslide file is parsed, get_timeslide_dict(idx) returns one
\* value per detector if 0 <= idx < number of rows, and raises
\* BilbyPipeError('Valid timeslide index must be provided.') for every other idx.
C29_TimeslideIndexChecked ==
  (calls # <<>> /\ calls[Len(calls)].op = "get_timeslide_dict"
   /\ self.timeslides_list # Unset) =>
    LET idx == calls[Len(calls)].arg
    IN IF 0 <= idx /\ idx < NumberOfRows
       THEN /\ result.kind = "returned"
            /\ DOMAIN result.val = Range(self.detectors.val)
       ELSE /\ result.kind = "raised"
            /\ result.error.exc = "BilbyPipeError"
            /\ result.error.msg = "Valid timeslide index must be provided."

\* trigger_time, post_trigger_duration and duration all hold numbers
TimesAllSet ==
  /\ self.trigger_time.kind = "int"
  /\ self.post_trigger_duration.kind = "int"
  /\ self.duration.kind = "int"

ReadOfStartTime == calls # <<>> /\ calls[Len(calls)].op = "start_time"

StartTimeError ==
  /\ result.kind = "raised"
  /\ result.error.exc = "BilbyPipeError"
  /\ result.error.msg = "Unexpected behaviour encountered with start time"

\* C30: after any sequence of assignments to trigger_time,
\* post_trigger_duration, duration and start_time, a read of start_time with
\* the three all set returns trigger_time + post_trigger_duration - duration
\* or raises BilbyPipeError, and never returns anything else.
C30_StartTimeConsistent ==
  (ReadOfStartTime /\ TimesAllSet) =>
    \/ result = Returned(PyInt(self.trigger_time.val + self.post_trigger_duration.val
                               - self.duration.val))
    \/ StartTimeError

\* a read that found a stored start time the three no longer agree with
C30_Witness == ReadOfStartTime /\ TimesAllSet /\ self.start_time # Unset /\ StartTimeError

====
